---- MODULE Spec2Model ----
(***************************************************************************)
(* binary_wheel_builder: the per-platform wheel build (api/build.py) and   *)
(* the GitHub release binary source (api/wheel_sources/github.py).         *)
(*                                                                         *)
(* Text is modelled as a sequence of tokens.  Variable text (a name, a     *)
(* package, a version) is one character per token; the fixed literals of   *)
(* the code's f-strings ("/__init__.py", ".dist-info", ...) are one token  *)
(* each and hold characters that no variable text holds, so that two token *)
(* sequences are equal exactly when the strings they stand for are equal.  *)
(* An f-string is the concatenation (\o) of its parts.                     *)
(***************************************************************************)
EXTENDS Integers, Sequences, FiniteSets, TLC

\* Longest platform list of a wheel spec, and number of build_wheel invocations.
MaxPlatforms == 2
MaxRuns == 2

None == "None"

\* ------------------------------------------------------------------ values

\* WheelPlatformIdentifier members and their tags (api/meta.py).
Platforms == {"LINUX_GENERIC_x86_64", "MAC_SILICON"}

to_tag(platform) ==
    IF platform = "LINUX_GENERIC_x86_64"
    THEN <<"py3-none-manylinux2014_x86_64">>
    ELSE <<"py3-none-macosx_11_0_arm64">>

\* WheelFileEntry.permissions: the default of the dataclass, and 0o755.
DefaultPermissions == 420
ExecutablePermissions == 493

WheelFileEntry(path, content, permissions) ==
    [path |-> path, content |-> content, permissions |-> permissions]

\* name.replace("-", "_")
NormalizeName(name) ==
    [i \in DOMAIN name |-> IF name[i] = "-" THEN "_" ELSE name[i]]

Names == {<<"t">>, <<"a", "-", "b">>}
Packages == {<<"t">>, <<"a", "_", "b">>}
Versions == {<<"1">>}

\* ------------------------------------------------------------ binary source

\* The release asset behind a URL: the bytes the host serves for it.
ReleaseAsset(url) == <<"bytes of">> \o url

\* What urlopen(request) / response.read() can do for a URL: answer with the
\* asset, answer with a non-success status (HTTPError), or fail below HTTP
\* (URLError: no route, no name resolution, refused connection).
NetOutcomes(url) ==
    {[status |-> "ok", body |-> ReleaseAsset(url)],
     [status |-> "HTTPError", body |-> <<>>],
     [status |-> "URLError", body |-> <<>>]}

SourceUrl(self, wheel_platform) ==
    <<"https://github.com/">> \o self.project_slug
        \o <<"/releases/download/">> \o self.tag_prefix \o self.version
        \o <<"/">> \o self.asset_name_mapping[wheel_platform]

RequestHeaders(self) ==
    IF self.token # None
    THEN {<<"Authorization", <<"token ", self.token>>>>}
    ELSE {}

NoCall ==
    [platform |-> None, net |-> None, raised |-> None, cause |-> None, built |-> 0,
     opened |-> 0, url |-> <<>>, headers |-> {}, fileset |-> <<>>]

\* GithubReleaseBinarySource.generate_fileset with the transport's answer net.
\* built counts the Request objects made, opened the urlopen calls.
GithubFetchFirst(self, wheel_platform, net) ==
    IF wheel_platform \notin DOMAIN self.asset_name_mapping
    THEN [NoCall EXCEPT !.platform = wheel_platform, !.built = 1, !.opened = 1,
                        !.raised = "UnsupportedWheelPlatformException"]
    ELSE [NoCall EXCEPT !.platform = wheel_platform, !.built = 1, !.opened = 1,
                        !.url = SourceUrl(self, wheel_platform),
                        !.headers = RequestHeaders(self),
                        !.raised = IF net.status = "ok" THEN None
                                   ELSE IF net.status = "HTTPError"
                                        THEN "SourceFileRequestFailed"
                                        ELSE "URLError",
                        !.cause = IF net.status = "HTTPError" THEN "HTTPError" ELSE None,
                        !.fileset = IF net.status = "ok"
                                    THEN <<WheelFileEntry(self.binary_path, net.body,
                                                          ExecutablePermissions)>>
                                    ELSE <<>>]

GithubRetryOnce(self, wheel_platform, net) ==
    IF wheel_platform \notin DOMAIN self.asset_name_mapping
    THEN [NoCall EXCEPT !.platform = wheel_platform,
                        !.raised = "UnsupportedWheelPlatformException"]
    ELSE [NoCall EXCEPT !.platform = wheel_platform, !.built = 1,
                        !.opened = IF net.status = "ok" THEN 1 ELSE 2,
                        !.url = SourceUrl(self, wheel_platform),
                        !.headers = RequestHeaders(self),
                        !.raised = IF net.status = "ok" THEN None
                                   ELSE IF net.status = "HTTPError"
                                        THEN "SourceFileRequestFailed"
                                        ELSE "URLError",
                        !.cause = IF net.status = "HTTPError" THEN "HTTPError" ELSE None,
                        !.fileset = IF net.status = "ok"
                                    THEN <<WheelFileEntry(self.binary_path, net.body,
                                                          ExecutablePermissions)>>
                                    ELSE <<>>]

GithubGenerateFileset(self, wheel_platform, net) ==
    IF wheel_platform \notin DOMAIN self.asset_name_mapping
    THEN [NoCall EXCEPT !.platform = wheel_platform,
                        !.raised = "UnsupportedWheelPlatformException"]
    ELSE [NoCall EXCEPT !.platform = wheel_platform, !.built = 1, !.opened = 1,
                        !.url = SourceUrl(self, wheel_platform),
                        !.headers = RequestHeaders(self),
                        !.raised = IF net.status = "ok" THEN None
                                   ELSE IF net.status = "HTTPError"
                                        THEN "SourceFileRequestFailed"
                                        ELSE "URLError",
                        !.cause = IF net.status = "HTTPError" THEN "HTTPError" ELSE None,
                        !.fileset = IF net.status = "ok"
                                    THEN <<WheelFileEntry(self.binary_path, net.body,
                                                          ExecutablePermissions)>>
                                    ELSE <<>>]

\* A WheelSource that holds its file entries: the same ordered list for every
\* platform it supports.
StaticGenerateFileset(self, wheel_platform) ==
    IF wheel_platform \notin self.supported
    THEN [NoCall EXCEPT !.platform = wheel_platform,
                        !.raised = "UnsupportedWheelPlatformException"]
    ELSE [NoCall EXCEPT !.platform = wheel_platform, !.fileset = self.files]

\* source.generate_fileset(platform): dispatch on the source's class.
GenerateFileset(source, wheel_platform, net) ==
    IF source.kind = "github"
    THEN GithubGenerateFileset(source, wheel_platform, net)
    ELSE StaticGenerateFileset(source, wheel_platform)

SourceNetOutcomes(source, wheel_platform) ==
    IF source.kind = "github" /\ wheel_platform \in DOMAIN source.asset_name_mapping
    THEN NetOutcomes(SourceUrl(source, wheel_platform))
    ELSE {[status |-> "ok", body |-> <<>>]}

\* --------------------------------------------- wheel/util.py (metadata text)

\* A metadata value: absent, a scalar text, or a list of texts.
Absent == [present |-> FALSE, list |-> FALSE, v |-> <<>>]
Scalar(text) == [present |-> TRUE, list |-> FALSE, v |-> text]
List(texts) == [present |-> TRUE, list |-> TRUE, v |-> texts]

\* One line per scalar field, one line per element of a list-valued field,
\* nothing for an absent (None) or empty field.
MetadataLines(key, value) ==
    IF ~value.present \/ value.v = <<>> THEN <<>>
    ELSE IF value.list THEN [i \in DOMAIN value.v |-> <<key, value.v[i]>>]
    ELSE <<<<key, value.v>>>>

generate_metadata_file(name, version, description, metadata) ==
    <<<<"Metadata-Version", <<"2.1">>>>, <<"Name", name>>, <<"Version", version>>>>
        \o MetadataLines("Summary", metadata.Summary)
        \o MetadataLines("Description-Content-Type", metadata.DescriptionContentType)
        \o MetadataLines("License", metadata.License)
        \o MetadataLines("Classifier", metadata.Classifier)
        \o MetadataLines("Project-URL", metadata.ProjectURL)
        \o MetadataLines("Requires-Python", metadata.RequiresPython)
        \o <<<<"", description>>>>

generate_wheel_file(tag) ==
    <<<<"Wheel-Version", <<"1.0">>>>, <<"Generator", <<"binary_wheel_builder">>>>,
      <<"Root-Is-Purelib", <<"false">>>>, <<"Tag", tag>>>>

\* ------------------------------------------------- api/build.py (pure parts)

WheelName(name, version, tag) ==
    NormalizeName(name) \o <<"-">> \o version \o <<"-">> \o tag \o <<".whl">>

DistInfo(name, version) ==
    NormalizeName(name) \o <<"-">> \o version \o <<".dist-info">>

\* os.path.join(out_dir, wheel_name): every wheel goes to the one dist folder,
\* so the file is named by wheel_name.
WheelFilePath(wheel_info, platform) ==
    WheelName(wheel_info.name, wheel_info.version, to_tag(platform))

\* _write_wheel, lines 28-38: the entries handed to the archive writer.
WriteWheelEntries(name, version, tag, metadata, description, wheel_file_entries) ==
    wheel_file_entries
        \o <<WheelFileEntry(DistInfo(name, version) \o <<"/METADATA">>,
                            generate_metadata_file(name, version, description, metadata),
                            DefaultPermissions),
             WheelFileEntry(DistInfo(name, version) \o <<"/WHEEL">>,
                            generate_wheel_file(tag),
                            DefaultPermissions)>>

\* _write_platform_wheel_with_wrappers, lines 49-179: the wrapper entries.
WrapperContents(wheel_info) ==
    <<WheelFileEntry(wheel_info.package \o <<"/__init__.py">>, <<>>, DefaultPermissions),
      WheelFileEntry(wheel_info.package \o <<"/__main__.py">>,
                     <<"subprocess.call __file__/">> \o wheel_info.executable,
                     DefaultPermissions),
      WheelFileEntry(wheel_info.package \o <<"/exec.py">>,
                     <<"subprocess.Popen __file__/">> \o wheel_info.executable,
                     DefaultPermissions)>>
        \o (IF wheel_info.add_to_path
            THEN <<WheelFileEntry(
                       wheel_info.package \o <<"-">> \o wheel_info.version
                           \o <<".dist-info">> \o <<"/entry_points.txt">>,
                       <<"[console_scripts]">> \o wheel_info.name \o <<"=">>
                           \o wheel_info.package \o <<":__main__">>,
                       DefaultPermissions)>>
            ELSE <<>>)

WheelMetadata(wheel_info) ==
    [Summary |-> wheel_info.summary,
     DescriptionContentType |-> Scalar(<<"text/markdown">>),
     License |-> wheel_info.license,
     Classifier |-> wheel_info.classifier,
     ProjectURL |-> wheel_info.project_urls,
     RequiresPython |-> wheel_info.requires_python]

SourceEntriesFirst(wheel_info, platform, fileset) ==
    WriteWheelEntries(wheel_info.name, wheel_info.version, to_tag(platform),
                      WheelMetadata(wheel_info), wheel_info.description,
                      fileset \o WrapperContents(wheel_info))

\* _write_platform_wheel_with_wrappers, lines 181-196, with the source's
\* fileset: [*contents, *source.generate_fileset(platform)], then _write_wheel.
PlatformWheelEntries(wheel_info, platform, fileset) ==
    WriteWheelEntries(wheel_info.name, wheel_info.version, to_tag(platform),
                      WheelMetadata(wheel_info), wheel_info.description,
                      WrapperContents(wheel_info) \o fileset)

\* ------------------------------------- wheel/reproducible.py (archive file)

\* The embedded modification time of every entry: a constant.
FixedDateTime == <<1980, 1, 1, 0, 0, 0>>

NewArchive == [entries |-> <<>>, closed |-> FALSE]

\* write_content_file: the entry is appended, in call order, with constant
\* time, constant compression and its permission bits as external attributes.
write_content_file(archive, entry) ==
    [archive EXCEPT !.entries =
        Append(@, [path |-> entry.path, content |-> entry.content,
                   external_attr |-> entry.permissions,
                   date_time |-> FixedDateTime,
                   compress_type |-> "ZIP_DEFLATED"])]

\* Leaving the writer's scope: on success the archive is finalized (its
\* central directory written, the handle closed); on an error the file is
\* removed from the destination path.
WheelFileExit(fs, path, failed) ==
    IF failed
    THEN [p \in DOMAIN fs \ {path} |-> fs[p]]
    ELSE [fs EXCEPT ![path].closed = TRUE]

\* ---------------------------------------------- api/build.py (file system)

OpenForAppend(fs, path) ==
    IF path \in DOMAIN fs
    THEN [fs EXCEPT ![path].closed = FALSE]
    ELSE (path :> NewArchive) @@ fs

\* ReproducibleWheelFile(wheel_file_path, 'w'): the file is created, or
\* truncated when it exists.
OpenForWrite(fs, path) == (path :> NewArchive) @@ fs

NoScopeExit(fs, path, failed) ==
    IF failed THEN fs ELSE WheelFileExit(fs, path, failed)

\* The with statement of _write_wheel: the writer's exit runs on every way out
\* of the block, the exception's included.
WithExit(fs, path, failed) == WheelFileExit(fs, path, failed)

\* hashlib.sha256(bytes).hexdigest(), taken as collision free: the digest
\* stands for the bytes it was computed from.
Sha256Hex(bytes) == <<"sha256", bytes>>

ChecksumOfPath(fs, path) == Sha256Hex(path)

\* with open(wheel_path, 'rb') as wheel: hashlib.sha256(wheel.read()).hexdigest()
Checksum(fs, path) == Sha256Hex(fs[path])

\* for python_platform in wheel_meta.platforms: the i-th iteration's platform.
PlatformAt(platforms, i) == platforms[i]

RunOn == "loop"

\* Line 218: the generator is suspended at the yield until the next next().
SuspendAtYield == "yielded"

SkipAndContinue == "loop"

\* No handler surrounds the call of line 211: an exception of the source ends
\* the generator.
OnSourceError == "raised"

\* ------------------------------------------------------------------ state

VARIABLES
    wheel,      \* the Wheel spec handed to build_wheel (never changed)
    disk,       \* the dist folder: wheel file path -> archive file
    distFolder, \* whether the dist folder exists
    run,        \* number of build_wheel invocations so far
    pc,         \* position of the generator of the current invocation
    idx,        \* 1-based index of the platform of the current iteration
    requested,  \* number of results the caller has requested (next() calls)
    results,    \* the WheelPlatformBuildResults yielded by this invocation
    error,      \* the exception that ended the generator, or None
    srcCall,    \* the latest generate_fileset call: what the transport
                \* answered (net) and what the call did
    entries,    \* the entry list of the current _write_wheel call
    nwritten,   \* entries of it written so far
    srcLog,     \* platform indices whose source was called, this invocation
    openLog,    \* platform indices whose archive was opened, this invocation
    archives    \* every archive yielded so far: run, platform, bytes, checksum

vars == <<wheel, disk, distFolder, run, pc, idx, requested, results, error,
          srcCall, entries, nwritten, srcLog, openLog, archives>>

SeqsUpTo(S, n) == UNION {[1..k -> S] : k \in 0..n}

GithubSources ==
    {[kind |-> "github", project_slug |-> <<"o/r">>, version |-> <<"1">>,
      asset_name_mapping |-> [p \in dom |-> IF p = "MAC_SILICON"
                                            THEN <<"tool-mac">> ELSE <<"tool-linux">>],
      binary_path |-> bp, tag_prefix |-> <<"v">>, token |-> tok]
     : dom \in SUBSET Platforms,
       bp \in {<<"t", "/", "x">>, <<"t", "/__init__.py">>},
       tok \in {None, "secret"}}

StaticSources ==
    {[kind |-> "static", supported |-> Platforms, files |-> fs]
     : fs \in {<<WheelFileEntry(<<"t", "/", "x">>, <<"X">>, ExecutablePermissions),
                 WheelFileEntry(<<"t", "/", "y">>, <<"Y">>, DefaultPermissions)>>,
               <<WheelFileEntry(<<"t", "/", "y">>, <<"Y">>, DefaultPermissions),
                 WheelFileEntry(<<"t", "/", "x">>, <<"X">>, ExecutablePermissions)>>}}

Wheels ==
    {[name |-> n, package |-> pk, version |-> v, executable |-> <<"x">>,
      summary |-> Scalar(<<"s">>), description |-> <<"d">>, license |-> Absent,
      classifier |-> List(<<<<"c1">>, <<"c2">>>>), project_urls |-> List(<<>>),
      requires_python |-> Scalar(<<">=3.8">>),
      add_to_path |-> atp, platforms |-> ps, source |-> src]
     : n \in Names, pk \in Packages, v \in Versions, atp \in BOOLEAN,
       ps \in SeqsUpTo(Platforms, MaxPlatforms),
       src \in GithubSources \cup StaticSources}

Init ==
    /\ wheel \in Wheels
    /\ disk = <<>>
    /\ distFolder = FALSE
    /\ run = 0
    /\ pc = "idle"
    /\ idx = 0
    /\ requested = 0
    /\ results = <<>>
    /\ error = None
    /\ srcCall = NoCall
    /\ entries = <<>>
    /\ nwritten = 0
    /\ srcLog = <<>>
    /\ openLog = <<>>
    /\ archives = {}

CurrentPlatform == PlatformAt(wheel.platforms, idx)
CurrentPath == WheelFilePath(wheel, CurrentPlatform)

\* build_wheel(wheel_meta, dist_folder): makes the generator; none of its body
\* runs yet.
CallBuildWheel ==
    /\ pc \in {"idle", "done", "raised"}
    /\ run < MaxRuns
    /\ run' = run + 1
    /\ pc' = "created"
    /\ idx' = 0
    /\ requested' = 0
    /\ results' = <<>>
    /\ error' = None
    /\ srcCall' = NoCall
    /\ entries' = <<>>
    /\ nwritten' = 0
    /\ srcLog' = <<>>
    /\ openLog' = <<>>
    /\ UNCHANGED <<wheel, disk, distFolder, archives>>

\* The caller's next(): the body starts (line 209, mkdir) or resumes after the
\* yield of line 218, leaving the with block, and reaches the for statement.
RequestNext ==
    /\ pc \in {"created", "yielded"}
    /\ requested' = requested + 1
    /\ distFolder' = TRUE
    /\ pc' = "loop"
    /\ UNCHANGED <<wheel, disk, run, idx, results, error, srcCall, entries,
                   nwritten, srcLog, openLog, archives>>

\* next() on a generator that returned or raised: StopIteration, nothing runs.
RequestNextFinished ==
    /\ pc \in {"done", "raised"}
    /\ UNCHANGED vars

\* Line 210: the next platform of the list, or the end of the generator.
ForNext ==
    /\ pc = "loop"
    /\ IF idx < Len(wheel.platforms)
       THEN /\ idx' = idx + 1
            /\ pc' = "build"
       ELSE /\ idx' = idx
            /\ pc' = "done"
    /\ entries' = <<>>
    /\ nwritten' = 0
    /\ UNCHANGED <<wheel, disk, distFolder, run, requested, results, error,
                   srcCall, srcLog, openLog, archives>>

\* Lines 211-216 and 49-195: the wrapper entries are made and the source is
\* called, before _write_wheel is entered.
CallSource ==
    /\ pc = "build"
    /\ \E net \in SourceNetOutcomes(wheel.source, CurrentPlatform) :
         LET r == GenerateFileset(wheel.source, CurrentPlatform, net) IN
         /\ srcCall' = [r EXCEPT !.net = net.status]
         /\ IF r.raised # None
            THEN /\ pc' = OnSourceError
                 /\ error' = r.raised
                 /\ entries' = entries
            ELSE /\ pc' = "open"
                 /\ error' = error
                 /\ entries' = PlatformWheelEntries(wheel, CurrentPlatform, r.fileset)
    /\ srcLog' = Append(srcLog, idx)
    /\ UNCHANGED <<wheel, disk, distFolder, run, idx, requested, results,
                   nwritten, openLog, archives>>

\* Line 40: the archive is opened for writing at its final path, or the
\* destination cannot be created.
OpenWheelFile ==
    /\ pc = "open"
    /\ \E ok \in BOOLEAN :
         IF ok
         THEN /\ disk' = OpenForWrite(disk, CurrentPath)
              /\ openLog' = Append(openLog, idx)
              /\ pc' = "write"
              /\ error' = error
         ELSE /\ disk' = disk
              /\ openLog' = openLog
              /\ pc' = "raised"
              /\ error' = "OSError"
    /\ UNCHANGED <<wheel, distFolder, run, idx, requested, results, srcCall,
                   entries, nwritten, srcLog, archives>>

\* Lines 41-42: one entry is written, or the write fails and the exception
\* leaves the with block.
WriteContentFile ==
    /\ pc = "write"
    /\ nwritten < Len(entries)
    /\ \E ok \in BOOLEAN :
         IF ok
         THEN /\ disk' = [disk EXCEPT ![CurrentPath] =
                             write_content_file(@, entries[nwritten + 1])]
              /\ nwritten' = nwritten + 1
              /\ pc' = pc
              /\ error' = error
         ELSE /\ disk' = WithExit(disk, CurrentPath, TRUE)
              /\ nwritten' = nwritten
              /\ pc' = "raised"
              /\ error' = "OSError"
    /\ UNCHANGED <<wheel, distFolder, run, idx, requested, results, srcCall,
                   entries, srcLog, openLog, archives>>

\* The end of the with block of line 40, and the return of line 44.
CloseWheelFile ==
    /\ pc = "write"
    /\ nwritten = Len(entries)
    /\ disk' = WithExit(disk, CurrentPath, FALSE)
    /\ pc' = "read"
    /\ UNCHANGED <<wheel, distFolder, run, idx, requested, results, error,
                   srcCall, entries, nwritten, srcLog, openLog, archives>>

\* Lines 217-221: the file is read back, hashed, and the result is yielded;
\* the generator is suspended at the yield.
YieldResult ==
    /\ pc = "read"
    /\ results' = Append(results, [checksum |-> Checksum(disk, CurrentPath),
                                   file_path |-> CurrentPath])
    /\ archives' = archives \cup
           {[run |-> run, platform |-> CurrentPlatform, bytes |-> disk[CurrentPath],
             checksum |-> Checksum(disk, CurrentPath)]}
    /\ pc' = SuspendAtYield
    /\ UNCHANGED <<wheel, disk, distFolder, run, idx, requested, error, srcCall,
                   entries, nwritten, srcLog, openLog>>

Next ==
    \/ CallBuildWheel
    \/ RequestNext
    \/ RequestNextFinished
    \/ ForNext
    \/ CallSource
    \/ OpenWheelFile
    \/ WriteContentFile
    \/ CloseWheelFile
    \/ YieldResult

Spec == Init /\ [][Next]_vars

\* ----------------------------------------------------------------- claims

UpTo(n) == [j \in 1..n |-> j]

FileName(entry) == entry.path[Len(entry.path)]

Directory(entry) == SubSeq(entry.path, 1, Len(entry.path) - 1)

\* C1: two builds of the same platform of the same wheel spec, in the same or
\* in different build_wheel invocations, yield byte-identical archive files
\* and identical checksums.
C1_Reproducible ==
    \A a, b \in archives :
        a.platform = b.platform => a.bytes = b.bytes /\ a.checksum = b.checksum

C1_Witness ==
    \E a, b \in archives :
        a.run # b.run /\ a.platform = b.platform /\ Len(a.bytes.entries) >= 6

\* C2: results come lazily and in platform-list order: the generator never
\* has more results, source calls or opened archives than results requested;
\* the j-th result is the archive of the j-th platform; while the caller holds
\* i results exactly the first i platforms were built and their archives are
\* closed; a generator that ended without error yielded one result per
\* platform.
C2_LazyInOrder ==
    /\ Len(results) <= requested
    /\ Len(srcLog) <= requested
    /\ Len(openLog) <= requested
    /\ \A j \in DOMAIN results :
           results[j].file_path = WheelName(wheel.name, wheel.version,
                                            to_tag(wheel.platforms[j]))
    /\ pc \in {"created", "yielded"} =>
           /\ Len(results) = requested
           /\ srcLog = UpTo(requested)
           /\ openLog = UpTo(requested)
           /\ \A j \in DOMAIN results :
                  /\ results[j].file_path \in DOMAIN disk
                  /\ disk[results[j].file_path].closed
    /\ pc = "done" =>
           /\ Len(results) = Len(wheel.platforms)
           /\ srcLog = UpTo(Len(wheel.platforms))
           /\ openLog = UpTo(Len(wheel.platforms))

C2_Witness ==
    /\ pc = "yielded"
    /\ Len(results) = 1
    /\ Len(wheel.platforms) = 2
    /\ wheel.platforms[1] # wheel.platforms[2]

SourceErrors ==
    {"UnsupportedWheelPlatformException", "SourceFileRequestFailed", "URLError"}

\* C3: once the source has raised for the k-th platform the generator has
\* ended with that error: there are k-1 results, the source was called for
\* platforms 1..k only, archives were opened for platforms 1..k-1 only, and
\* each of those archives is on disk, closed, with the bytes its result's
\* checksum was taken of.
C3_SourceErrorAborts ==
    error \in SourceErrors =>
        /\ pc = "raised"
        /\ error = srcCall.raised
        /\ Len(results) = idx - 1
        /\ srcLog = UpTo(idx)
        /\ openLog = UpTo(idx - 1)
        /\ \A j \in DOMAIN results :
               /\ results[j].file_path \in DOMAIN disk
               /\ disk[results[j].file_path].closed
               /\ results[j].checksum = Sha256Hex(disk[results[j].file_path])

C3_Witness ==
    /\ error \in SourceErrors
    /\ pc = "raised"
    /\ idx = 2
    /\ Len(results) = 1
    /\ Len(wheel.platforms) = 2

GithubCall == wheel.source.kind = "github" /\ srcCall.platform # None

\* C5: generate_fileset of the GitHub source for a platform outside
\* asset_name_mapping raises UnsupportedWheelPlatformException, which is not
\* the fetch-failure error, having built no request and opened no URL.
C5_UnsupportedPlatform ==
    (GithubCall /\ srcCall.platform \notin DOMAIN wheel.source.asset_name_mapping) =>
        /\ srcCall.raised = "UnsupportedWheelPlatformException"
        /\ srcCall.raised # "SourceFileRequestFailed"
        /\ srcCall.built = 0
        /\ srcCall.opened = 0
        /\ srcCall.fileset = <<>>

C5_Witness ==
    /\ GithubCall
    /\ srcCall.platform \notin DOMAIN wheel.source.asset_name_mapping
    /\ pc = "raised"

\* C6: the entry list handed to the archive writer holds no two entries with
\* the same path.
C6_UniquePaths ==
    pc \in {"open", "write", "read", "yielded"} =>
        \A i, j \in DOMAIN entries : i # j => entries[i].path # entries[j].path

MetadataFileNames == {"/METADATA", "/WHEEL", "/entry_points.txt"}

\* C7: in every archive built, METADATA, WHEEL and entry_points.txt are in
\* the directory {normalized_name}-{version}.dist-info, normalized_name being
\* the name with "-" replaced by "_".
C7_OneDistInfo ==
    pc \in {"read", "yielded"} =>
        \A k \in DOMAIN disk[CurrentPath].entries :
            LET e == disk[CurrentPath].entries[k] IN
            FileName(e) \in MetadataFileNames =>
                Directory(e) = NormalizeName(wheel.name) \o <<"-">> \o wheel.version
                                   \o <<".dist-info">>

\* C8: a finished archive holds, in this order, __init__.py, __main__.py and
\* exec.py of the package, entry_points.txt iff add_to_path, the source's
\* entries as the source returned them, METADATA, and WHEEL last: 3 + (1 if
\* add_to_path) + (number of source entries) + 2 entries.
C8_EntryOrder ==
    pc \in {"read", "yielded"} =>
        LET a == disk[CurrentPath].entries
            w == 3 + (IF wheel.add_to_path THEN 1 ELSE 0)
            n == Len(srcCall.fileset)
        IN  /\ Len(a) = w + n + 2
            /\ a[1].path = wheel.package \o <<"/__init__.py">>
            /\ a[2].path = wheel.package \o <<"/__main__.py">>
            /\ a[3].path = wheel.package \o <<"/exec.py">>
            /\ wheel.add_to_path => FileName(a[4]) = "/entry_points.txt"
            /\ \A k \in 1..n :
                   /\ a[w + k].path = srcCall.fileset[k].path
                   /\ a[w + k].content = srcCall.fileset[k].content
                   /\ a[w + k].external_attr = srcCall.fileset[k].permissions
            /\ FileName(a[w + n + 1]) = "/METADATA"
            /\ FileName(a[w + n + 2]) = "/WHEEL"

C8_Witness ==
    /\ pc = "yielded"
    /\ wheel.add_to_path
    /\ Len(srcCall.fileset) = 2
    /\ Len(disk[CurrentPath].entries) = 8

\* C9: when the checksum is computed the archive at the wheel file path is
\* closed and holds all entries of this platform and no other, and the
\* yielded checksum is the SHA-256 of the file at the result's path.
C9_ChecksumOfFinalFile ==
    /\ pc \in {"read", "yielded"} =>
           LET f == disk[WheelName(wheel.name, wheel.version,
                                   to_tag(wheel.platforms[idx]))]
           IN  /\ f.closed
               /\ Len(f.entries) = Len(entries)
               /\ \A k \in DOMAIN entries :
                      /\ f.entries[k].path = entries[k].path
                      /\ f.entries[k].content = entries[k].content
               /\ f.entries[Len(f.entries)].content =
                      generate_wheel_file(to_tag(wheel.platforms[idx]))
    /\ pc = "yielded" =>
           LET r == results[Len(results)]
           IN  /\ r.file_path = WheelName(wheel.name, wheel.version,
                                          to_tag(wheel.platforms[idx]))
               /\ r.checksum = Sha256Hex(disk[r.file_path])

C9_Witness ==
    /\ pc = "yielded"
    /\ Len(results) = 2
    /\ results[1].file_path # results[2].file_path

GithubFetch ==
    GithubCall /\ srcCall.platform \in DOMAIN wheel.source.asset_name_mapping

FetchedEntry ==
    <<[path |-> wheel.source.binary_path, content |-> ReleaseAsset(srcCall.url),
       permissions |-> ExecutablePermissions]>>

\* C10 as claimed: for a platform of asset_name_mapping generate_fileset makes
\* one fetch; every failed fetch raises SourceFileRequestFailed with the
\* transport error as cause and returns nothing; a successful one returns
\* the one entry with the fetched bytes, the binary path and 0o755.
C10_EveryFailureWrapped ==
    GithubFetch =>
        /\ srcCall.opened = 1
        /\ srcCall.net # "ok" =>
               /\ srcCall.raised = "SourceFileRequestFailed"
               /\ srcCall.cause = srcCall.net
               /\ srcCall.fileset = <<>>
        /\ srcCall.net = "ok" =>
               /\ srcCall.raised = None
               /\ srcCall.fileset = FetchedEntry

\* C10 as amended: one fetch and no retry; a non-success HTTP answer
\* (HTTPError) raises SourceFileRequestFailed with the HTTPError as cause; any
\* other transport error (URLError) leaves the call as it is, unwrapped; both
\* return no entries; a successful fetch returns the one entry with the
\* fetched bytes, the binary path and 0o755.
C10_HttpErrorWrapped ==
    GithubFetch =>
        /\ srcCall.opened = 1
        /\ srcCall.built = 1
        /\ srcCall.net = "HTTPError" =>
               /\ srcCall.raised = "SourceFileRequestFailed"
               /\ srcCall.cause = "HTTPError"
               /\ srcCall.fileset = <<>>
        /\ srcCall.net = "URLError" =>
               /\ srcCall.raised = "URLError"
               /\ srcCall.cause = None
               /\ srcCall.fileset = <<>>
        /\ srcCall.net = "ok" =>
               /\ srcCall.raised = None
               /\ srcCall.fileset = FetchedEntry

C10_Witness ==
    /\ GithubFetch
    /\ srcCall.net = "HTTPError"
    /\ pc = "raised"
    /\ error = "SourceFileRequestFailed"

====
